---- MODULE Spec2Model ----
(***************************************************************************)
(* Model of java/dexpreopt_config.go (Soong): the derivation of the boot   *)
(* image configs ("art" base image and "boot" framework extension), the    *)
(* updatable boot config, the system server classpath and the boot class   *)
(* path for dexpreopt, all memoized per build config through Once.         *)
(*                                                                         *)
(* Go slices are modelled as (ptr, len, cap) headers over a heap of        *)
(* backing arrays, so that append's aliasing is part of the model.         *)
(***************************************************************************)
EXTENDS Integers, Sequences, FiniteSets, TLC

VARIABLES
    global,      \* dexpreopt.GetGlobalConfig(ctx): the configured jar lists
    Targets,     \* ctx.Config().Targets: OsType -> list of targets
    onceValues,  \* ctx.Config()'s OncePer map: key -> [state, val]
    heap,        \* backing arrays of the slices: array id -> cells
    pc,          \* per caller: position in the function it is running
    op,          \* per caller: the function it called and its argument
    key,         \* per caller: the OnceKey of the Once it is inside
    building,    \* per caller: locals of the factory it is running
    loc,         \* per caller: locals dexPaths/dexLocations of bcpForDexpreopt
    ret,         \* per caller: the value the finished call returned
    factoryRuns, \* key -> number of times the factory body was entered
    makeVars,    \* variables exported through ctx.Strict
    calls,       \* number of calls started so far
    panicked     \* an unrecovered panic has ended the process

vars == <<global, Targets, onceValues, heap, pc, op, key, building, loc,
          ret, factoryRuns, makeVars, calls, panicked>>

---------------------------------------------------------------------------
(* Bounds of the model. *)

NumCallers == 2
MaxCalls == 3
MaxArtJars == 2
MaxFrameworkJars == 1
MaxUpdatableJars == 1
MaxJars == 2
MaxAndroidTargets == 2
MaxHostTargets == 2
MaxSystemServerJars == 2

Callers == 1..NumCallers

---------------------------------------------------------------------------
(* Small helpers over sequences. *)

Range(s) == {s[i] : i \in 1..Len(s)}

NoDup(s) == \A i, j \in 1..Len(s) : i # j => s[i] # s[j]

SeqsUpTo(S, n) == UNION {[1..k -> S] : k \in 0..n}

Prefix(s, n) == SubSeq(s, 1, IF n < Len(s) THEN n ELSE Len(s))

IsSubSeqOrder(s, t) ==
    \* s is t with some elements left out: same relative order
    s = SelectSeq(t, LAMBDA x : x \in Range(s))

---------------------------------------------------------------------------
(* android.Target and the target matrix. *)

Android == "android"
BuildOs == "linux_glibc"
NativeBridgeDisabled == "NativeBridgeDisabled"
NativeBridgeEnabled == "NativeBridgeEnabled"

Target(os, arch, nb) == [Os |-> os, Arch |-> arch, NativeBridge |-> nb]

AndroidTargetUniverse ==
    {Target(Android, "arm64", NativeBridgeDisabled),
     Target(Android, "x86_64", NativeBridgeDisabled),
     Target(Android, "arm64", NativeBridgeEnabled),
     Target(Android, "arm", NativeBridgeEnabled)}

HostTargetUniverse ==
    {Target(BuildOs, "x86_64", NativeBridgeDisabled),
     Target(BuildOs, "x86", NativeBridgeDisabled)}

RECURSIVE AppendDeviceTargets(_, _)
AppendDeviceTargets(targets, rest) ==
    IF rest = <<>> THEN targets
    ELSE AppendDeviceTargets(
             IF Head(rest).NativeBridge = NativeBridgeDisabled
             THEN Append(targets, Head(rest)) ELSE targets,
             Tail(rest))

RECURSIVE AppendHostTargets(_, _)
AppendHostTargets(targets, rest) ==
    IF rest = <<>> THEN targets
    ELSE AppendHostTargets(Append(targets, Head(rest)), Tail(rest))

dexpreoptTargetsKeepBridge(T) == AppendHostTargets(T[Android], T[BuildOs])

dexpreoptTargets(T) ==
    AppendHostTargets(AppendDeviceTargets(<<>>, T[Android]), T[BuildOs])

---------------------------------------------------------------------------
(* android.ConfiguredJarList: an ordered list of (apex, jar) pairs. *)

Jar(apex, jar) == [apex |-> apex, jar |-> jar]

RemoveList(l, list) == SelectSeq(l, LAMBDA j : j \notin Range(list))

BuildPaths(l, dir) ==
    [i \in 1..Len(l) |-> dir \o "/" \o l[i].apex \o "/" \o l[i].jar \o ".jar"]

ApexSubdir(apex) ==
    IF apex = "platform" THEN "system/framework"
    ELSE "apex/" \o apex \o "/javalib"

DevicePaths(l, os) ==
    [i \in 1..Len(l) |->
        (IF os = Android THEN "/" ELSE "out/host/linux-x86/")
            \o ApexSubdir(l[i].apex) \o "/" \o l[i].jar \o ".jar"]

CopyOfApexJarPairs(l) == [i \in 1..Len(l) |-> l[i].apex \o ":" \o l[i].jar]

CopyOfJars(l) == [i \in 1..Len(l) |-> l[i].jar]

NonUpdatableSystemServerJars(g) ==
    SelectSeq(CopyOfJars(g.SystemServerJars),
              LAMBDA m : m \notin Range(CopyOfJars(g.UpdatableSystemServerJars)))

RECURSIVE Join(_, _)
Join(elems, sep) ==
    IF elems = <<>> THEN ""
    ELSE IF Len(elems) = 1 THEN elems[1]
    ELSE elems[1] \o sep \o Join(Tail(elems), sep)

---------------------------------------------------------------------------
(* Go slices over the heap of backing arrays. *)

Zero == ""
NoArray == <<"nil", "", 0, 0>>
NilSlice == [ptr |-> NoArray, len |-> 0, cap |-> 0]

Elems(h, s) == [i \in 1..s.len |-> h[s.ptr][i]]

Zeros(n) == [i \in 1..n |-> Zero]

\* make([]T, len(elems)) filled with elems, as BuildPaths and DevicePaths do
MakeSlice(h, id, elems) ==
    IF elems = <<>> THEN [heap |-> h, slice |-> NilSlice]
    ELSE [heap |-> (id :> elems) @@ h,
          slice |-> [ptr |-> id, len |-> Len(elems), cap |-> Len(elems)]]

\* the allocator's size classes in bytes (Go runtime, class_to_size)
SizeClasses ==
    <<8, 16, 24, 32, 48, 64, 80, 96, 112, 128, 144, 160, 176, 192, 208, 224,
      240, 256, 288, 320, 352, 384, 416, 448, 480, 512, 576, 640, 704, 768,
      896, 1024, 1152, 1280, 1408, 1536, 1792, 2048, 2304, 2688, 3072, 3200,
      3456, 4096, 4864, 5376, 6144, 6528, 6784, 6912, 8192, 9472, 9728,
      10240, 10880, 12288, 13568, 14336, 16384, 18432, 19072, 20480, 21760,
      24576, 27264, 28672, 32768>>

\* the growth step of growslice for capacities of 256 and more, repeated
\* until the capacity reaches the needed length
RECURSIVE GrowLoop(_, _)
GrowLoop(newcap, newLen) ==
    LET c == newcap + (newcap + 3 * 256) \div 4 IN
    IF c >= newLen THEN c ELSE GrowLoop(c, newLen)

\* the capacity growslice asks for before rounding (Go runtime, nextslicecap)
nextslicecap(newLen, oldCap) ==
    IF newLen > 2 * oldCap THEN newLen
    ELSE IF oldCap < 256 THEN 2 * oldCap
    ELSE GrowLoop(oldCap, newLen)

\* the bytes the allocator hands out for a request of size bytes holding
\* pointers (Go runtime, roundupsize): the smallest size class that fits,
\* less the 8-byte malloc header that requests above 512 bytes carry; requests
\* beyond the largest class are rounded up to whole 8192-byte pages
roundupsize(size) ==
    LET header == IF size > 512 THEN 8 ELSE 0
        req == size + header
    IN  IF size <= 32768 - 8
        THEN LET fits == {i \in 1..Len(SizeClasses) : SizeClasses[i] >= req}
                 k == CHOOSE i \in fits : \A j \in fits : i <= j
             IN  SizeClasses[k] - header
        ELSE ((size + 8191) \div 8192) * 8192

\* the capacity the Go runtime gives a slice grown by append: the elements of
\* dexPathsDeps (android.Path) and dexLocationsDeps (string) take 16 bytes
GrowCap(oldcap, needed) ==
    roundupsize(nextslicecap(needed, oldcap) * 16) \div 16

\* append(s, elems...): in place when the capacity allows, else a new array id
GoAppend(h, s, elems, id) ==
    LET n == Len(elems) IN
    IF n = 0 THEN [heap |-> h, slice |-> s]
    ELSE IF s.len + n <= s.cap
    THEN [heap |-> [h EXCEPT ![s.ptr] =
                       [i \in DOMAIN h[s.ptr] |->
                           IF i > s.len /\ i <= s.len + n
                           THEN elems[i - s.len] ELSE @[i]]],
          slice |-> [s EXCEPT !.len = s.len + n]]
    ELSE LET c == GrowCap(s.cap, s.len + n) IN
         [heap |-> (id :> (Elems(h, s) \o elems \o Zeros(c - s.len - n))) @@ h,
          slice |-> [ptr |-> id, len |-> s.len + n, cap |-> c]]

---------------------------------------------------------------------------
(* bootImageConfig, bootImageVariant and the steps of genBootImageConfigs. *)

bootImageConfigKey == "bootImageConfig"
updatableBootConfigKey == "updatableBootConfig"
systemServerClasspathKey == "systemServerClasspath"
artBootImageName == "art"
frameworkBootImageName == "boot"

DeviceName == "generic"
deviceDir == "out/soong/" \o DeviceName

\* array ids: <<owner, field, run of the factory or caller, target index>>
ArrayId(owner, fld, n, i) == <<owner, fld, n, i>>

moduleName(c, idx) ==
    IF idx # 1 \/ c.extends # ""
    THEN c.stem \o "-" \o c.modules[idx].jar
    ELSE c.stem

firstModuleNameOrStem(c) ==
    IF Len(c.modules) > 0 THEN moduleName(c, 1) ELSE c.stem

RECURSIVE moduleFilesFrom(_, _, _, _)
moduleFilesFrom(c, dir, exts, idx) ==
    IF idx > Len(c.modules) THEN <<>>
    ELSE [e \in 1..Len(exts) |-> dir \o "/" \o moduleName(c, idx) \o exts[e]]
             \o moduleFilesFrom(c, dir, exts, idx + 1)

moduleFiles(c, dir, exts) == moduleFilesFrom(c, dir, exts, 1)

\* lines 83-111: the two configs before the per-config loop
NewBootImageConfig(name, installDir, modules, extends) ==
    [name |-> name, stem |-> "boot", installDirOnHost |-> installDir,
     modules |-> modules, extends |-> extends,
     dir |-> "", symbolsDir |-> "", zip |-> "",
     dexPaths |-> NilSlice, dexPathsDeps |-> NilSlice, variants |-> <<>>]

frameworkModulesKeepArt(g) == g.BootJars

frameworkModules(g) == RemoveList(g.BootJars, g.ArtApexJars)

NewConfigs(g) ==
    (artBootImageName :>
        NewBootImageConfig(artBootImageName, "apex/art_boot_images/javalib",
                           g.ArtApexJars, ""))
    @@ (frameworkBootImageName :>
        NewBootImageConfig(frameworkBootImageName, "system/framework",
                           frameworkModules(g), artBootImageName))

\* lines 133-140: one variant; its dexLocationsDeps aliases its dexLocations
NewVariant(h, c, target, imageName, run, i) ==
    LET imageDir == c.dir \o "/" \o target.Os \o "/" \o c.installDirOnHost
                        \o "/" \o target.Arch
        m == MakeSlice(h, ArrayId(c.name, "dexLocations", run, i),
                       DevicePaths(c.modules, target.Os))
    IN [heap |-> m.heap,
        variant |-> [bootImageConfig |-> c.name,
                     target |-> target,
                     imagePathOnHost |-> imageDir \o "/" \o imageName,
                     imagesDeps |-> moduleFiles(c, imageDir, <<".art", ".oat", ".vdex">>),
                     dexLocations |-> m.slice,
                     dexLocationsDeps |-> m.slice,
                     primaryImages |-> ""]]

AddVariantFront(variants, v) == <<v>> \o variants

AddVariant(variants, v) == Append(variants, v)

\* lines 130-142: the loop over the targets, from index i on
RECURSIVE ExpandVariants(_, _, _, _, _, _)
ExpandVariants(h, c, targets, imageName, run, i) ==
    IF i > Len(targets) THEN [heap |-> h, cfg |-> c]
    ELSE LET nv == NewVariant(h, c, targets[i], imageName, run, i) IN
         ExpandVariants(nv.heap,
                        [c EXCEPT !.variants = AddVariant(@, nv.variant)],
                        targets, imageName, run, i + 1)

\* lines 115-144: the body of the loop over the configs, for config c
VisitConfig(h, c0, targets, run) ==
    LET c1 == [c0 EXCEPT !.dir = deviceDir \o "/dex_" \o c0.name \o "jars",
                         !.symbolsDir = deviceDir \o "/dex_" \o c0.name
                                            \o "jars_unstripped"]
        imageName == firstModuleNameOrStem(c1) \o ".art"
        inputDir == deviceDir \o "/dex_" \o c1.name \o "jars_input"
        m == MakeSlice(h, ArrayId(c1.name, "dexPaths", run, 0),
                       BuildPaths(c1.modules, inputDir))
        c2 == [c1 EXCEPT !.dexPaths = m.slice, !.dexPathsDeps = m.slice]
        ex == ExpandVariants(m.heap, c2, targets, imageName, run, 1)
    IN [heap |-> ex.heap,
        cfg |-> [ex.cfg EXCEPT !.zip = c2.dir \o "/" \o c2.name \o ".zip"]]

\* lines 150-151 for target index i and the ones after it
RECURSIVE WireVariants(_, _, _, _, _, _)
WireVariants(h, art, fw, targets, run, i) ==
    IF i > Len(targets) THEN [heap |-> h, cfg |-> fw]
    ELSE LET a == GoAppend(h, art.variants[i].dexLocations,
                           Elems(h, fw.variants[i].dexLocationsDeps),
                           ArrayId(fw.name, "dexLocationsDeps", run, i))
         IN WireVariants(a.heap, art,
                [fw EXCEPT !.variants[i].primaryImages =
                               art.variants[i].imagePathOnHost,
                           !.variants[i].dexLocationsDeps = a.slice],
                targets, run, i + 1)

WireDexPathsDepsSwapped(h, art, fw, run) ==
    GoAppend(h, fw.dexPathsDeps, Elems(h, art.dexPathsDeps),
             ArrayId(fw.name, "dexPathsDeps", run, 0))

\* line 148
WireDexPathsDeps(h, art, fw, run) ==
    GoAppend(h, art.dexPathsDeps, Elems(h, fw.dexPathsDeps),
             ArrayId(fw.name, "dexPathsDeps", run, 0))

\* lines 147-152: the part specific to the framework config
WireFramework(h, configs, targets, run) ==
    LET art == configs[artBootImageName]
        fw == configs[frameworkBootImageName]
        a == WireDexPathsDeps(h, art, fw, run)
        w == WireVariants(a.heap, art, [fw EXCEPT !.dexPathsDeps = a.slice],
                          targets, run, 1)
    IN [heap |-> w.heap,
        configs |-> [configs EXCEPT ![frameworkBootImageName] = w.cfg]]

\* bootImageConfig.getAnyAndroidVariant: the first Android variant, or nil
AndroidVariants(c) == SelectSeq(c.variants, LAMBDA v : v.target.Os = Android)

\* lines 187-194: the updatable boot config
NewUpdatableBootConfig(h, g, run) ==
    LET dir == deviceDir \o "/updatable_bootjars"
        p == MakeSlice(h, ArrayId("updatable", "dexPaths", run, 0),
                       BuildPaths(g.UpdatableBootJars, dir))
        l == MakeSlice(p.heap, ArrayId("updatable", "dexLocations", run, 0),
                       DevicePaths(g.UpdatableBootJars, Android))
    IN [heap |-> l.heap,
        val |-> [modules |-> g.UpdatableBootJars,
                 dexPaths |-> p.slice, dexLocations |-> l.slice]]

\* lines 35-38: the loop over the non-updatable jars
SystemFrameworkPaths(ms) ==
    [i \in 1..Len(ms) |-> "/system/framework/" \o ms[i] \o ".jar"]

\* lines 31-41: the list the factory of systemServerClasspath builds
systemServerClasspathLocations(g) ==
    SystemFrameworkPaths(NonUpdatableSystemServerJars(g))
        \o DevicePaths(g.UpdatableSystemServerJars, Android)

\* line 43
expectedLen(g) == Len(g.SystemServerJars) + Len(g.UpdatableSystemServerJars)

---------------------------------------------------------------------------
(* The callers: every caller runs one function at a time.  A step is one   *)
(* access to what the callers share (the Once map, a backing array) with   *)
(* the local computation that follows it.                                  *)

None == [kind |-> "none"]

ConfigsValue(run, configs) == [kind |-> "configs", id |-> run, configs |-> configs]
UpdatableValue(run, cfg) == [kind |-> "updatableBootConfig", id |-> run, cfg |-> cfg]
StringsValue(run, list) == [kind |-> "strings", id |-> run, list |-> list]
ConfigValue(v, name) == [kind |-> "config", id |-> v.id, cfg |-> v.configs[name]]

OnceKeys == {bootImageConfigKey, updatableBootConfigKey, systemServerClasspathKey}

InitCallers ==
    /\ onceValues = [k \in OnceKeys |-> [state |-> "absent", val |-> None]]
    /\ heap = (NoArray :> <<>>)
    /\ pc = [p \in Callers |-> "idle"]
    /\ op = [p \in Callers |-> [name |-> "", withUpdatable |-> FALSE]]
    /\ key = [p \in Callers |-> ""]
    /\ building = [p \in Callers |-> None]
    /\ loc = [p \in Callers |-> None]
    /\ ret = [p \in Callers |-> None]
    /\ factoryRuns = [k \in OnceKeys |-> 0]
    /\ makeVars = [v \in {"DEXPREOPT_BOOT_JARS_MODULES"} |-> None]
    /\ calls = 0
    /\ panicked = FALSE

\* the function returns value
Return(p, value) ==
    /\ ret' = [ret EXCEPT ![p] = value]
    /\ pc' = [pc EXCEPT ![p] = "done"]
    /\ key' = [key EXCEPT ![p] = ""]
    /\ loc' = [loc EXCEPT ![p] = None]

\* an unrecovered panic ends the whole process
Panic(p) ==
    /\ panicked' = TRUE
    /\ pc' = [pc EXCEPT ![p] = "panic"]
    /\ UNCHANGED <<key, loc, ret, makeVars>>

---------------------------------------------------------------------------
(* What each function does with the value v that its Once returned.        *)

\* lines 155, 195, 47: the value itself
ReturnValue(p, v) ==
    /\ Return(p, v)
    /\ UNCHANGED <<makeVars, panicked>>

\* lines 159 and 163: one config of the map
ReturnConfig(p, v, name) ==
    /\ Return(p, ConfigValue(v, name))
    /\ UNCHANGED <<makeVars, panicked>>

StrictValue(c) == Join(CopyOfApexJarPairs(c.modules), ":")

dexpreoptConfigMakevarsOfArt(p, v) ==
    /\ makeVars' = [makeVars EXCEPT !["DEXPREOPT_BOOT_JARS_MODULES"] =
                        [kind |-> "string",
                         value |-> StrictValue(v.configs[artBootImageName])]]
    /\ Return(p, [kind |-> "void"])
    /\ UNCHANGED panicked

\* line 226
dexpreoptConfigMakevarsStrict(p, v) ==
    /\ makeVars' = [makeVars EXCEPT !["DEXPREOPT_BOOT_JARS_MODULES"] =
                        [kind |-> "string",
                         value |-> StrictValue(v.configs[frameworkBootImageName])]]
    /\ Return(p, [kind |-> "void"])
    /\ UNCHANGED panicked

BcpValue(dexPaths, dexLocations) ==
    [kind |-> "bcp", dexPaths |-> dexPaths, dexLocations |-> dexLocations]

bcpReadArtImage(p, o, v) ==
    LET bootImage == v.configs[artBootImageName]
        dexPaths == bootImage.dexPathsDeps
        dexLocations == AndroidVariants(bootImage)[1].dexLocationsDeps
    IN IF AndroidVariants(bootImage) = <<>>
       THEN Panic(p)
       ELSE IF o.withUpdatable
       THEN /\ loc' = [loc EXCEPT ![p] = BcpValue(dexPaths, dexLocations)]
            /\ key' = [key EXCEPT ![p] = updatableBootConfigKey]
            /\ pc' = [pc EXCEPT ![p] = "Once"]
            /\ ret' = [ret EXCEPT ![p] = None]
            /\ UNCHANGED <<makeVars, panicked>>
       ELSE /\ Return(p, BcpValue(dexPaths, dexLocations))
            /\ UNCHANGED <<makeVars, panicked>>

\* lines 202-207 and 214: read the cached slices (a nil variant is a nil
\* dereference), then return them or go on to GetUpdatableBootConfig
bcpReadBootImage(p, o, v) ==
    LET bootImage == v.configs[frameworkBootImageName]
        dexPaths == bootImage.dexPathsDeps
        dexLocations == AndroidVariants(bootImage)[1].dexLocationsDeps
    IN IF AndroidVariants(bootImage) = <<>>
       THEN Panic(p)
       ELSE IF o.withUpdatable
       THEN /\ loc' = [loc EXCEPT ![p] = BcpValue(dexPaths, dexLocations)]
            /\ key' = [key EXCEPT ![p] = updatableBootConfigKey]
            /\ pc' = [pc EXCEPT ![p] = "Once"]
            /\ ret' = [ret EXCEPT ![p] = None]
            /\ UNCHANGED <<makeVars, panicked>>
       ELSE /\ Return(p, BcpValue(dexPaths, dexLocations))
            /\ UNCHANGED <<makeVars, panicked>>

\* line 209: updBootConfig
bcpGotUpdatable(p, v) ==
    /\ loc' = [loc EXCEPT ![p] = [kind |-> "bcp", dexPaths |-> @.dexPaths,
                                  dexLocations |-> @.dexLocations,
                                  updBootConfig |-> v.cfg]]
    /\ pc' = [pc EXCEPT ![p] = "bcpAppendDexPaths"]
    /\ key' = [key EXCEPT ![p] = ""]
    /\ UNCHANGED <<ret, makeVars, panicked>>

Continue(p, o, k, v) ==
    CASE o.name \in {"genBootImageConfigs", "GetUpdatableBootConfig",
                     "systemServerClasspath"} -> ReturnValue(p, v)
      [] o.name = "artBootImageConfig" -> ReturnConfig(p, v, artBootImageName)
      [] o.name = "defaultBootImageConfig" -> ReturnConfig(p, v, frameworkBootImageName)
      [] o.name = "dexpreoptConfigMakevars" -> dexpreoptConfigMakevarsStrict(p, v)
      [] o.name = "bcpForDexpreopt" /\ k = bootImageConfigKey -> bcpReadBootImage(p, o, v)
      [] o.name = "bcpForDexpreopt" /\ k = updatableBootConfigKey -> bcpGotUpdatable(p, v)

---------------------------------------------------------------------------
(* Once(key, factory) of the build config.                                 *)

\* Once with the same factory always run, whatever the map holds
OnceAlwaysRun(p, o, k) ==
    /\ onceValues' = [onceValues EXCEPT ![k].state = "running"]
    /\ factoryRuns' = [factoryRuns EXCEPT ![k] = @ + 1]
    /\ pc' = [pc EXCEPT ![p] = "Factory"]
    /\ key' = [key EXCEPT ![p] = k]
    /\ ret' = [ret EXCEPT ![p] = None]
    /\ UNCHANGED <<loc, makeVars, panicked>>

\* caller p, running o, reaches Once(k, factory): a stored value is returned;
\* with none, p is the one that runs the factory; with the factory running,
\* p waits for its value
Once(p, o, k) ==
    CASE onceValues[k].state = "done" ->
            /\ Continue(p, o, k, onceValues[k].val)
            /\ UNCHANGED <<onceValues, factoryRuns>>
      [] onceValues[k].state = "absent" ->
            /\ onceValues' = [onceValues EXCEPT ![k].state = "running"]
            /\ factoryRuns' = [factoryRuns EXCEPT ![k] = @ + 1]
            /\ pc' = [pc EXCEPT ![p] = "Factory"]
            /\ key' = [key EXCEPT ![p] = k]
            /\ ret' = [ret EXCEPT ![p] = None]
            /\ UNCHANGED <<loc, makeVars, panicked>>
      [] onceValues[k].state = "running" ->
            /\ pc' = [pc EXCEPT ![p] = "Once"]
            /\ key' = [key EXCEPT ![p] = k]
            /\ ret' = [ret EXCEPT ![p] = None]
            /\ UNCHANGED <<onceValues, factoryRuns, loc, makeVars, panicked>>

\* a waiting caller, or bcpForDexpreopt at line 209, gets the value
OnceLoad(p) ==
    /\ ~panicked
    /\ pc[p] = "Once"
    /\ onceValues[key[p]].state # "running"
    /\ Once(p, op[p], key[p])
    /\ UNCHANGED <<global, Targets, heap, op, building, calls>>

\* the factory has returned: store its value and hand it to the caller
OnceStore(p) ==
    /\ ~panicked
    /\ pc[p] = "OnceStore"
    /\ onceValues' = [onceValues EXCEPT ![key[p]] =
                          [state |-> "done", val |-> building[p]]]
    /\ building' = [building EXCEPT ![p] = None]
    /\ Continue(p, op[p], key[p], building[p])
    /\ UNCHANGED <<global, Targets, heap, op, factoryRuns, calls>>

---------------------------------------------------------------------------
(* The functions, from their call to their first Once.                     *)

\* the backing arrays only the value caller p holds can reach
Release(h, p) ==
    [id \in {i \in DOMAIN h : ~(i[1] = "bcp" /\ i[3] = p)} |-> h[id]]

Call(p, o) ==
    /\ ~panicked
    /\ pc[p] \in {"idle", "done"}
    /\ calls < MaxCalls
    /\ calls' = calls + 1
    /\ op' = [op EXCEPT ![p] = o]
    /\ heap' = Release(heap, p)
    /\ UNCHANGED <<global, Targets, building>>

Op(name, w) == [name |-> name, withUpdatable |-> w]

Enter(p, o, k) ==
    /\ Call(p, o)
    /\ Once(p, o, k)

genBootImageConfigsNoOnce(p) ==
    /\ Call(p, Op("genBootImageConfigs", FALSE))
    /\ OnceAlwaysRun(p, Op("genBootImageConfigs", FALSE), bootImageConfigKey)

\* line 77
genBootImageConfigs(p) ==
    Enter(p, Op("genBootImageConfigs", FALSE), bootImageConfigKey)

\* line 159
artBootImageConfig(p) ==
    Enter(p, Op("artBootImageConfig", FALSE), bootImageConfigKey)

\* line 163
defaultBootImageConfig(p) ==
    Enter(p, Op("defaultBootImageConfig", FALSE), bootImageConfigKey)

\* line 186
GetUpdatableBootConfig(p) ==
    Enter(p, Op("GetUpdatableBootConfig", FALSE), updatableBootConfigKey)

\* line 30
systemServerClasspath(p) ==
    Enter(p, Op("systemServerClasspath", FALSE), systemServerClasspathKey)

\* line 202: bcpForDexpreopt starts with defaultBootImageConfig(ctx)
bcpForDexpreopt(p, withUpdatable) ==
    Enter(p, Op("bcpForDexpreopt", withUpdatable), bootImageConfigKey)

\* line 226: dexpreoptConfigMakevars starts with defaultBootImageConfig(ctx)
dexpreoptConfigMakevars(p) ==
    Enter(p, Op("dexpreoptConfigMakevars", FALSE), bootImageConfigKey)

\* lines 54-67 called on their own
dexpreoptTargetsCall(p) ==
    /\ Call(p, Op("dexpreoptTargets", FALSE))
    /\ Return(p, [kind |-> "targets", list |-> dexpreoptTargets(Targets)])
    /\ UNCHANGED <<onceValues, factoryRuns, makeVars, panicked>>

---------------------------------------------------------------------------
(* The factory of genBootImageConfigs, lines 79-154.                       *)

InFactory(p, k) ==
    /\ ~panicked
    /\ pc[p] = "Factory"
    /\ key[p] = k

\* the same with a check of the module counts before the loop
GenNewConfigsChecked(p) ==
    /\ InFactory(p, bootImageConfigKey)
    /\ IF Len(global.ArtApexJars) + Len(frameworkModules(global)) # Len(global.BootJars)
       THEN /\ Panic(p)
            /\ UNCHANGED building
       ELSE /\ building' = [building EXCEPT ![p] =
                        [kind |-> "genBootImageConfigs",
                         run |-> factoryRuns[bootImageConfigKey],
                         targets |-> dexpreoptTargets(Targets),
                         configs |-> NewConfigs(global),
                         todo |-> {artBootImageName, frameworkBootImageName}]]
            /\ pc' = [pc EXCEPT ![p] = "GenLoop"]
            /\ UNCHANGED <<key, loc, ret, makeVars, panicked>>
    /\ UNCHANGED <<global, Targets, onceValues, heap, op, factoryRuns, calls>>

\* lines 79-111
GenNewConfigs(p) ==
    /\ InFactory(p, bootImageConfigKey)
    /\ building' = [building EXCEPT ![p] =
                        [kind |-> "genBootImageConfigs",
                         run |-> factoryRuns[bootImageConfigKey],
                         targets |-> dexpreoptTargets(Targets),
                         configs |-> NewConfigs(global),
                         todo |-> {artBootImageName, frameworkBootImageName}]]
    /\ pc' = [pc EXCEPT ![p] = "GenLoop"]
    /\ UNCHANGED <<global, Targets, onceValues, heap, op, key, loc, ret,
                   factoryRuns, makeVars, calls, panicked>>

\* lines 114-145: one iteration of "for _, c := range configs"; the order in
\* which a Go map is ranged over is not fixed
GenVisitConfig(p, name) ==
    /\ ~panicked
    /\ pc[p] = "GenLoop"
    /\ name \in building[p].todo
    /\ LET b == building[p]
           v == VisitConfig(heap, b.configs[name], b.targets, b.run)
       IN /\ heap' = v.heap
          /\ building' = [building EXCEPT ![p].configs[name] = v.cfg,
                                          ![p].todo = @ \ {name}]
    /\ UNCHANGED <<global, Targets, onceValues, pc, op, key, loc, ret,
                   factoryRuns, makeVars, calls, panicked>>

\* lines 147-154
GenWireFramework(p) ==
    /\ ~panicked
    /\ pc[p] = "GenLoop"
    /\ building[p].todo = {}
    /\ LET b == building[p]
           w == WireFramework(heap, b.configs, b.targets, b.run)
       IN /\ heap' = w.heap
          /\ building' = [building EXCEPT ![p] = ConfigsValue(b.run, w.configs)]
    /\ pc' = [pc EXCEPT ![p] = "OnceStore"]
    /\ UNCHANGED <<global, Targets, onceValues, op, key, loc, ret,
                   factoryRuns, makeVars, calls, panicked>>

\* lines 187-194: the factory of GetUpdatableBootConfig
UpdatableFactory(p) ==
    /\ InFactory(p, updatableBootConfigKey)
    /\ LET run == factoryRuns[updatableBootConfigKey]
           u == NewUpdatableBootConfig(heap, global, run)
       IN /\ heap' = u.heap
          /\ building' = [building EXCEPT ![p] = UpdatableValue(run, u.val)]
    /\ pc' = [pc EXCEPT ![p] = "OnceStore"]
    /\ UNCHANGED <<global, Targets, onceValues, op, key, loc, ret,
                   factoryRuns, makeVars, calls, panicked>>

SystemServerFactoryUnchecked(p) ==
    /\ InFactory(p, systemServerClasspathKey)
    /\ building' = [building EXCEPT ![p] =
                        StringsValue(factoryRuns[systemServerClasspathKey],
                                     systemServerClasspathLocations(global))]
    /\ pc' = [pc EXCEPT ![p] = "OnceStore"]
    /\ UNCHANGED <<global, Targets, onceValues, heap, op, key, loc, ret,
                   factoryRuns, makeVars, calls, panicked>>

\* lines 31-46: the factory of systemServerClasspath returns the list ...
SystemServerFactory(p) ==
    /\ InFactory(p, systemServerClasspathKey)
    /\ expectedLen(global) = Len(systemServerClasspathLocations(global))
    /\ building' = [building EXCEPT ![p] =
                        StringsValue(factoryRuns[systemServerClasspathKey],
                                     systemServerClasspathLocations(global))]
    /\ pc' = [pc EXCEPT ![p] = "OnceStore"]
    /\ UNCHANGED <<global, Targets, onceValues, heap, op, key, loc, ret,
                   factoryRuns, makeVars, calls, panicked>>

\* lines 43-45: ... or panics on the wrong number of jars
SystemServerFactoryPanic(p) ==
    /\ InFactory(p, systemServerClasspathKey)
    /\ expectedLen(global) # Len(systemServerClasspathLocations(global))
    /\ Panic(p)
    /\ UNCHANGED <<global, Targets, onceValues, heap, op, building,
                   factoryRuns, calls>>

---------------------------------------------------------------------------
(* bcpForDexpreopt with updatable jars, lines 210-214.                     *)

bcpCopyDexPaths(p) ==
    /\ ~panicked
    /\ pc[p] = "bcpAppendDexPaths"
    /\ LET s == loc[p].dexPaths
           u == Elems(heap, loc[p].updBootConfig.dexPaths)
       IN heap' = [heap EXCEPT ![s.ptr] =
                      [i \in 1..Len(@) |-> IF i <= Len(u) THEN u[i] ELSE @[i]]]
    /\ pc' = [pc EXCEPT ![p] = "bcpAppendDexLocations"]
    /\ UNCHANGED <<global, Targets, onceValues, op, key, building, loc, ret,
                   factoryRuns, makeVars, calls, panicked>>

\* line 210
bcpAppendDexPaths(p) ==
    /\ ~panicked
    /\ pc[p] = "bcpAppendDexPaths"
    /\ LET a == GoAppend(heap, loc[p].dexPaths,
                         Elems(heap, loc[p].updBootConfig.dexPaths),
                         ArrayId("bcp", "dexPaths", p, 0))
       IN /\ heap' = a.heap
          /\ loc' = [loc EXCEPT ![p].dexPaths = a.slice]
    /\ pc' = [pc EXCEPT ![p] = "bcpAppendDexLocations"]
    /\ UNCHANGED <<global, Targets, onceValues, op, key, building, ret,
                   factoryRuns, makeVars, calls, panicked>>

\* lines 211 and 214
bcpAppendDexLocations(p) ==
    /\ ~panicked
    /\ pc[p] = "bcpAppendDexLocations"
    /\ LET a == GoAppend(heap, loc[p].dexLocations,
                         Elems(heap, loc[p].updBootConfig.dexLocations),
                         ArrayId("bcp", "dexLocations", p, 0))
       IN /\ heap' = a.heap
          /\ Return(p, BcpValue(loc[p].dexPaths, a.slice))
    /\ UNCHANGED <<global, Targets, onceValues, op, building, factoryRuns,
                   makeVars, calls, panicked>>

---------------------------------------------------------------------------
(* Inputs: the global config and the target matrix.                        *)

ArtOrder == <<Jar("com.android.art", "core-oj"), Jar("com.android.art", "core-libart"),
              Jar("com.android.art", "okhttp")>>
FrameworkOrder == <<Jar("platform", "framework"), Jar("platform", "ext"),
                    Jar("platform", "telephony-common")>>
UpdatableOrder == <<Jar("com.android.conscrypt", "conscrypt"),
                    Jar("com.android.media", "updatable-media"),
                    Jar("com.android.tethering", "framework-tethering")>>
SystemServerOrder == <<Jar("platform", "services"), Jar("platform", "ethernet-service"),
                       Jar("platform", "wifi-service")>>
UpdatableSystemServerOrder == <<Jar("com.android.permission", "service-permission"),
                                Jar("com.android.wifi", "wifi-service"),
                                Jar("com.android.ipsec", "services")>>

JarLists(S, n) == {l \in SeqsUpTo(S, n) : NoDup(l)}

Global(art, boot, upd, ss, uss) ==
    [ArtApexJars |-> art, BootJars |-> boot, UpdatableBootJars |-> upd,
     SystemServerJars |-> ss, UpdatableSystemServerJars |-> uss]

Matrix(android, host) == (Android :> android) @@ (BuildOs :> host)

ArmDevice == Target(Android, "arm64", NativeBridgeDisabled)
ArmBridge == Target(Android, "arm", NativeBridgeEnabled)
Host == Target(BuildOs, "x86_64", NativeBridgeDisabled)

\* the main specification: well-formed configs (BootJars = ArtApexJars then
\* the framework jars) of the sizes the bounds allow, on a device with and
\* without a target that is not native-bridge; every caller may call every
\* function, up to MaxCalls calls in all
GlobalsOfSizes ==
    {Global(Prefix(ArtOrder, a),
            Prefix(ArtOrder, a) \o Prefix(FrameworkOrder, f),
            Prefix(UpdatableOrder, u),
            Prefix(SystemServerOrder, 1),
            Prefix(UpdatableSystemServerOrder, 1)) :
        a \in {0, MaxArtJars}, f \in 0..MaxFrameworkJars, u \in {0, MaxUpdatableJars}}

MatricesOfSizes ==
    {Matrix(<<ArmBridge, ArmDevice>>, <<Host>>), Matrix(<<ArmBridge>>, <<>>)}

Init ==
    /\ global \in GlobalsOfSizes
    /\ Targets \in MatricesOfSizes
    /\ InitCallers

Next ==
    \E p \in Callers :
        \/ genBootImageConfigs(p)
        \/ artBootImageConfig(p)
        \/ defaultBootImageConfig(p)
        \/ GetUpdatableBootConfig(p)
        \/ \E w \in BOOLEAN : bcpForDexpreopt(p, w)
        \/ dexpreoptConfigMakevars(p)
        \/ OnceLoad(p)
        \/ OnceStore(p)
        \/ GenNewConfigs(p)
        \/ \E name \in {artBootImageName, frameworkBootImageName} : GenVisitConfig(p, name)
        \/ GenWireFramework(p)
        \/ UpdatableFactory(p)
        \/ bcpAppendDexPaths(p)
        \/ bcpAppendDexLocations(p)

Spec == Init /\ [][Next]_vars

\* the derivation of the boot image configs alone, by one caller, over every
\* pair of duplicate-free jar lists: ArtApexJars need not be within BootJars
JarUniverse == {ArtOrder[1], ArtOrder[2], FrameworkOrder[1]}

DeviceTargetLists ==
    {l \in SeqsUpTo({ArmDevice, ArmBridge}, MaxAndroidTargets) : NoDup(l)}

HostTargetLists == {l \in SeqsUpTo({Host}, MaxHostTargets) : NoDup(l)}

InitBuild ==
    /\ global \in {Global(art, boot, Prefix(UpdatableOrder, 1),
                          Prefix(SystemServerOrder, 1),
                          Prefix(UpdatableSystemServerOrder, 1)) :
                      art \in JarLists(JarUniverse, MaxJars),
                      boot \in JarLists(JarUniverse, MaxJars)}
    /\ Targets \in {Matrix(a, h) : a \in DeviceTargetLists, h \in HostTargetLists}
    /\ InitCallers

NextBuild ==
    \/ genBootImageConfigs(1)
    \/ dexpreoptConfigMakevars(1)
    \/ OnceStore(1)
    \/ GenNewConfigs(1)
    \/ \E name \in {artBootImageName, frameworkBootImageName} : GenVisitConfig(1, name)
    \/ GenWireFramework(1)

SpecBuild == InitBuild /\ [][NextBuild]_vars

\* dexpreoptTargets alone, over every target matrix within the bounds
InitTargets ==
    /\ global \in {Global(<<>>, <<>>, <<>>, <<>>, <<>>)}
    /\ Targets \in {Matrix(a, h) :
                       a \in SeqsUpTo(AndroidTargetUniverse, MaxAndroidTargets),
                       h \in SeqsUpTo(HostTargetUniverse, MaxHostTargets)}
    /\ InitCallers

NextTargets == \E p \in Callers : dexpreoptTargetsCall(p)

SpecTargets == InitTargets /\ [][NextTargets]_vars

\* systemServerClasspath alone, over every pair of duplicate-free lists of
\* system server jars; a jar may be named in both lists
SystemServerUniverse == Range(SystemServerOrder)
UpdatableSystemServerUniverse == Range(UpdatableSystemServerOrder)

InitSystemServer ==
    /\ global \in {Global(<<>>, <<>>, <<>>, ss, uss) :
                      ss \in JarLists(SystemServerUniverse, MaxSystemServerJars),
                      uss \in JarLists(UpdatableSystemServerUniverse, MaxSystemServerJars)}
    /\ Targets \in {Matrix(<<ArmDevice>>, <<Host>>)}
    /\ InitCallers

NextSystemServer ==
    \E p \in Callers :
        \/ systemServerClasspath(p)
        \/ OnceLoad(p)
        \/ OnceStore(p)
        \/ SystemServerFactory(p)
        \/ SystemServerFactoryPanic(p)

SpecSystemServer == InitSystemServer /\ [][NextSystemServer]_vars

\* the memoized derivations alone, called by every caller at once; the
\* system server jars are well-formed or name a jar in both lists
SystemServerPairs ==
    {<<Prefix(SystemServerOrder, 1), Prefix(UpdatableSystemServerOrder, 1)>>,
     <<Prefix(SystemServerOrder, MaxSystemServerJars),
       SubSeq(UpdatableSystemServerOrder, 3, 3)>>}

InitOnce ==
    /\ global \in {[g EXCEPT !.SystemServerJars = s[1],
                             !.UpdatableSystemServerJars = s[2]] :
                      g \in GlobalsOfSizes, s \in SystemServerPairs}
    /\ Targets \in MatricesOfSizes
    /\ InitCallers

NextOnce ==
    \E p \in Callers :
        \/ genBootImageConfigs(p)
        \/ GetUpdatableBootConfig(p)
        \/ systemServerClasspath(p)
        \/ OnceLoad(p)
        \/ OnceStore(p)
        \/ GenNewConfigs(p)
        \/ \E name \in {artBootImageName, frameworkBootImageName} : GenVisitConfig(p, name)
        \/ GenWireFramework(p)
        \/ UpdatableFactory(p)
        \/ SystemServerFactory(p)
        \/ SystemServerFactoryPanic(p)

SpecOnce == InitOnce /\ [][NextOnce]_vars

---------------------------------------------------------------------------
(* Reading the state: published values with their slices dereferenced.     *)

Published(k) == onceValues[k].state = "done"

Cached(k) == onceValues[k].val

BaseConfig == Cached(bootImageConfigKey).configs[artBootImageName]
ExtensionConfig == Cached(bootImageConfigKey).configs[frameworkBootImageName]

DerefVariant(h, v) ==
    [v EXCEPT !.dexLocations = Elems(h, @), !.dexLocationsDeps = Elems(h, @)]

DerefConfig(h, c) ==
    [c EXCEPT !.dexPaths = Elems(h, @), !.dexPathsDeps = Elems(h, @),
              !.variants = [i \in 1..Len(@) |-> DerefVariant(h, @[i])]]

\* everything that can be read through value v in heap h
Deref(h, v) ==
    CASE v.kind = "configs" ->
            [n \in DOMAIN v.configs |-> DerefConfig(h, v.configs[n])]
      [] v.kind = "config" -> DerefConfig(h, v.cfg)
      [] v.kind = "updatableBootConfig" ->
            [v.cfg EXCEPT !.dexPaths = Elems(h, @), !.dexLocations = Elems(h, @)]
      [] v.kind = "bcp" ->
            [dexPaths |-> Elems(h, v.dexPaths), dexLocations |-> Elems(h, v.dexLocations)]
      [] OTHER -> v

MemoizedKey(name) ==
    CASE name = "genBootImageConfigs" -> bootImageConfigKey
      [] name = "GetUpdatableBootConfig" -> updatableBootConfigKey
      [] name = "systemServerClasspath" -> systemServerClasspathKey

Memoized == {"genBootImageConfigs", "GetUpdatableBootConfig", "systemServerClasspath"}

HasReturned(p, name) == pc[p] = "done" /\ op[p].name = name

InsideFactory(k) ==
    \E q \in Callers : pc[q] \in {"Factory", "GenLoop", "OnceStore"} /\ key[q] = k

---------------------------------------------------------------------------
(* The claims.                                                             *)

\* C1: for the callers of one memoized derivation, under every interleaving
\* the factory body is entered at most once, and exactly once as soon as a
\* caller has returned; a caller returns only after the factory has finished
\* and stored its value, which is the finished value and not the factory's
\* locals; and all callers that have returned hold the identical value (the
\* same run's, with equal contents).
C1_ExactlyOnce ==
    /\ \A k \in OnceKeys : factoryRuns[k] <= 1
    /\ \A p \in Callers : \A name \in Memoized :
          HasReturned(p, name) =>
              /\ factoryRuns[MemoizedKey(name)] = 1
              /\ Published(MemoizedKey(name))
              /\ ~InsideFactory(MemoizedKey(name))
              /\ ret[p] = Cached(MemoizedKey(name))
              /\ ret[p].kind \in {"configs", "updatableBootConfig", "strings"}
              /\ ret[p].kind = "configs" =>
                    \A n \in {artBootImageName, frameworkBootImageName} :
                        /\ ret[p].configs[n].zip # ""
                        /\ Len(ret[p].configs[n].variants) = Len(dexpreoptTargets(Targets))
    /\ \A p, q \in Callers : \A name \in Memoized :
          HasReturned(p, name) /\ HasReturned(q, name) =>
              /\ ret[p] = ret[q]
              /\ Deref(heap, ret[p]) = Deref(heap, ret[q])

\* C1 witness: every caller has returned from genBootImageConfigs, whose
\* factory ran once and built variants.
C1_Witness ==
    /\ \A p \in Callers : HasReturned(p, "genBootImageConfigs")
    /\ factoryRuns[bootImageConfigKey] = 1
    /\ Len(BaseConfig.variants) > 0

\* C2: once a derivation has published its value, no step changes the value
\* or anything read through it (the slice headers and the elements within
\* their lengths), and no step changes what a caller's returned value holds
\* while the caller holds it; the appends of bcpForDexpreopt included.
C2_NoMutationAfterPublish ==
    [][/\ \A k \in OnceKeys :
            Published(k) =>
                /\ onceValues'[k] = onceValues[k]
                /\ Deref(heap', Cached(k)) = Deref(heap, Cached(k))
       /\ \A p \in Callers :
            (pc[p] = "done" /\ pc'[p] = "done" /\ op'[p] = op[p] /\ ret'[p] = ret[p]) =>
                Deref(heap', ret[p]) = Deref(heap, ret[p])
       /\ \A p \in Callers :
            (pc[p] = "done" /\ calls' = calls) =>
                pc'[p] = "done" /\ ret'[p] = ret[p]]_vars

\* C2 witness: a caller holds lists that bcpForDexpreopt(withUpdatable=true)
\* appended in place, in the spare capacity of the cached dexPathsDeps array,
\* while the other caller holds the cached list itself.
C2_Witness ==
    /\ Published(bootImageConfigKey)
    /\ \E p, q \in Callers :
          /\ HasReturned(p, "bcpForDexpreopt") /\ op[p].withUpdatable
          /\ ret[p].dexPaths.ptr = ExtensionConfig.dexPathsDeps.ptr
          /\ ret[p].dexPaths.len > ExtensionConfig.dexPathsDeps.len
          /\ HasReturned(q, "bcpForDexpreopt") /\ ~op[q].withUpdatable

ModuleSet(c) == Range(c.modules)

CoreOj == ArtOrder[1]
Framework == FrameworkOrder[1]

\* C3: for the pair genBootImageConfigs builds from a well-formed
\* configuration, one whose boot module list (BootJars) holds every base
\* module (ArtApexJars), the extension's modules and the base's modules are
\* disjoint, their union is the set of BootJars, and the extension's modules
\* appear in the same relative order as in BootJars. Disjointness and order
\* hold for every pair of lists.
C3_ModulesPartition ==
    Published(bootImageConfigKey) =>
        /\ ModuleSet(ExtensionConfig) \cap ModuleSet(BaseConfig) = {}
        /\ IsSubSeqOrder(ExtensionConfig.modules, global.BootJars)
        /\ BaseConfig.modules = global.ArtApexJars
        /\ (Range(global.ArtApexJars) \subseteq Range(global.BootJars))
               => ModuleSet(ExtensionConfig) \cup ModuleSet(BaseConfig)
                      = Range(global.BootJars)
        /\ (global.ArtApexJars = <<CoreOj>> /\ global.BootJars = <<CoreOj, Framework>>)
               => ExtensionConfig.modules = <<Framework>>

\* C3 witness: a published pair with base and extension modules, all of the
\* base modules being boot jars.
C3_Witness ==
    /\ Published(bootImageConfigKey)
    /\ Range(global.ArtApexJars) \subseteq Range(global.BootJars)
    /\ BaseConfig.modules # <<>>
    /\ ExtensionConfig.modules # <<>>

\* C4: after genBootImageConfigs the extension's dexPathsDeps is the base's
\* dexPathsDeps followed by the extension's own dexPaths; for every target
\* index the extension variant's dexLocationsDeps is the base variant's
\* dexLocations followed by the extension variant's own; the base's lists of
\* deps are its own lists; whichever config the loop visited first.
C4_DepsConcatenation ==
    Published(bootImageConfigKey) =>
        LET base == DerefConfig(heap, BaseConfig)
            ext == DerefConfig(heap, ExtensionConfig)
        IN /\ ext.dexPathsDeps = base.dexPathsDeps \o ext.dexPaths
           /\ base.dexPathsDeps = base.dexPaths
           /\ Len(ext.dexPaths) = Len(ext.modules)
           /\ Len(base.dexPaths) = Len(base.modules)
           /\ Len(ext.variants) = Len(base.variants)
           /\ \A i \in 1..Len(ext.variants) :
                 /\ ext.variants[i].dexLocationsDeps
                        = base.variants[i].dexLocations \o ext.variants[i].dexLocations
                 /\ base.variants[i].dexLocationsDeps = base.variants[i].dexLocations
                 /\ Len(ext.variants[i].dexLocations) = Len(ext.modules)
                 /\ Len(base.variants[i].dexLocations) = Len(base.modules)

\* C4 witness: a published pair, both configs with modules of their own,
\* expanded over two targets.
C4_Witness ==
    /\ Published(bootImageConfigKey)
    /\ BaseConfig.dexPaths.len > 0
    /\ ExtensionConfig.dexPaths.len > 0
    /\ ExtensionConfig.dexPathsDeps.len > ExtensionConfig.dexPaths.len
    /\ Len(ExtensionConfig.variants) >= 2

\* C5: every config has one variant per resolved target, in the order of the
\* resolved targets, so that variants of the same index have the same target
\* and the extension variant's primaryImages is the image path of the base
\* variant for that target.
C5_VariantsFollowTargets ==
    Published(bootImageConfigKey) =>
        LET targets == dexpreoptTargets(Targets) IN
        /\ \A c \in {BaseConfig, ExtensionConfig} :
              /\ Len(c.variants) = Len(targets)
              /\ \A i \in 1..Len(targets) :
                    /\ c.variants[i].target = targets[i]
                    /\ c.variants[i].bootImageConfig = c.name
        /\ \A i \in 1..Len(targets) :
              /\ ExtensionConfig.variants[i].target = BaseConfig.variants[i].target
              /\ ExtensionConfig.variants[i].primaryImages
                     = BaseConfig.variants[i].imagePathOnHost
              /\ BaseConfig.variants[i].primaryImages = ""

\* C5 witness: a published pair over two different resolved targets.
C5_Witness ==
    /\ Published(bootImageConfigKey)
    /\ Len(dexpreoptTargets(Targets)) >= 2
    /\ dexpreoptTargets(Targets)[1] # dexpreoptTargets(Targets)[2]
    /\ ExtensionConfig.variants[2].primaryImages # ""

ModuleCount == Len(BaseConfig.modules) + Len(ExtensionConfig.modules)

\* C6 (as amended): the derivation of the boot image configs checks no module
\* count and never aborts: it publishes both configs for every pair of jar
\* lists, and the base count plus the extension count equals the BootJars
\* count exactly when every base module is in BootJars.
C6_NoCountCheck ==
    /\ ~panicked
    /\ Published(bootImageConfigKey) =>
          /\ (ModuleCount = Len(global.BootJars))
                 <=> (Range(global.ArtApexJars) \subseteq Range(global.BootJars))
          /\ ModuleCount >= Len(global.BootJars)

\* C6 witness: both configs are cached although the counts differ.
C6_Witness ==
    /\ Published(bootImageConfigKey)
    /\ ModuleCount # Len(global.BootJars)
    /\ \E p \in Callers : HasReturned(p, "genBootImageConfigs")

\* C6 as stated: with the counts differing the derivation aborts, so configs
\* are cached only with base count + extension count = BootJars count.
C6_Original ==
    Published(bootImageConfigKey) => ModuleCount = Len(global.BootJars)

\* C7: the list systemServerClasspath returns has SystemServerJars.Len() +
\* UpdatableSystemServerJars.Len() entries: first a /system/framework path
\* for every system server jar, in order, then the device paths of the
\* updatable system server jars, in order.
C7_SystemServerClasspath ==
    \A p \in Callers :
        HasReturned(p, "systemServerClasspath") =>
            LET l == ret[p].list
                n == Len(global.SystemServerJars)
                u == Len(global.UpdatableSystemServerJars)
            IN /\ Len(l) = n + u
               /\ \A i \in 1..n :
                     l[i] = "/system/framework/" \o global.SystemServerJars[i].jar \o ".jar"
               /\ \A j \in 1..u :
                     l[n + j] = DevicePaths(global.UpdatableSystemServerJars, Android)[j]

\* C7 witness: a caller has the classpath of a config with system server
\* jars of both kinds.
C7_Witness ==
    \E p \in Callers :
        /\ HasReturned(p, "systemServerClasspath")
        /\ Len(global.SystemServerJars) >= 2
        /\ Len(global.UpdatableSystemServerJars) >= 1
        /\ Len(ret[p].list) >= 3

\* C8: every call of bcpForDexpreopt(withUpdatable=false) returns the
\* extension config's dexPathsDeps and its Android variant's
\* dexLocationsDeps; every call with withUpdatable=true returns these lists
\* followed by the updatable boot config's dexPaths and dexLocations, so a
\* returned list is as long as the transitive list plus, with updatable, the
\* number of UpdatableBootJars; true of every returned value for as long as
\* its caller holds it, in every sequence of calls.
C8_BcpForDexpreopt ==
    \A p \in Callers :
        HasReturned(p, "bcpForDexpreopt") =>
            LET ext == DerefConfig(heap, ExtensionConfig)
                locs == AndroidVariants(ext)[1].dexLocationsDeps
                r == Deref(heap, ret[p])
                w == op[p].withUpdatable
                upd == IF w THEN Deref(heap, Cached(updatableBootConfigKey))
                       ELSE [dexPaths |-> <<>>, dexLocations |-> <<>>]
                n == IF w THEN Len(global.UpdatableBootJars) ELSE 0
            IN /\ r.dexPaths = ext.dexPathsDeps \o upd.dexPaths
               /\ r.dexLocations = locs \o upd.dexLocations
               /\ Len(r.dexPaths) = Len(ext.dexPathsDeps) + n
               /\ Len(r.dexLocations) = Len(locs) + n

\* C8 witness: one caller holds the lists with updatable jars and the other
\* those without, for a config with boot jars and updatable boot jars.
C8_Witness ==
    \E p, q \in Callers :
        /\ HasReturned(p, "bcpForDexpreopt") /\ op[p].withUpdatable
        /\ HasReturned(q, "bcpForDexpreopt") /\ ~op[q].withUpdatable
        /\ ret[q].dexPaths.len > 0
        /\ ret[p].dexPaths.len > ret[q].dexPaths.len
        /\ ret[p].dexLocations.len > ret[q].dexLocations.len

IsBridged(t) == t.NativeBridge # NativeBridgeDisabled

\* C9: dexpreoptTargets returns the device targets that are not native
\* bridge, in matrix order, followed by the host targets, in matrix order:
\* no native-bridge device target is in the result, every host target is, and
\* an empty matrix gives an empty result.
C9_DexpreoptTargets ==
    \A p \in Callers :
        HasReturned(p, "dexpreoptTargets") =>
            LET l == ret[p].list
                dev == SelectSeq(Targets[Android], LAMBDA t : ~IsBridged(t))
            IN /\ l = dev \o Targets[BuildOs]
               /\ \A i \in 1..Len(l) : l[i].Os = Android => ~IsBridged(l[i])
               /\ \A i \in 1..Len(Targets[BuildOs]) :
                     l[Len(dev) + i] = Targets[BuildOs][i]
               /\ (Targets[Android] = <<>> /\ Targets[BuildOs] = <<>>) => l = <<>>
               /\ ~panicked

\* C9 witness: the targets of a matrix with a native-bridge device target
\* before a device target that is not, and two different host targets.
C9_Witness ==
    \E p \in Callers :
        /\ HasReturned(p, "dexpreoptTargets")
        /\ Len(Targets[Android]) = 2
        /\ IsBridged(Targets[Android][1])
        /\ ~IsBridged(Targets[Android][2])
        /\ Len(Targets[BuildOs]) = 2
        /\ Targets[BuildOs][1] # Targets[BuildOs][2]
        /\ Len(ret[p].list) = 3

Exported == makeVars["DEXPREOPT_BOOT_JARS_MODULES"]

\* C10 (as amended): DEXPREOPT_BOOT_JARS_MODULES is the colon-joined string of
\* the apex:jar pairs of the default boot image config's modules, in list
\* order: the default config is the framework extension, whose modules are
\* BootJars without the base (ART) modules.
C10_ExportedBootJars ==
    Exported # None =>
        /\ Published(bootImageConfigKey)
        /\ Exported.value = Join(CopyOfApexJarPairs(ExtensionConfig.modules), ":")
        /\ (global.ArtApexJars = <<CoreOj>> /\ global.BootJars = <<CoreOj, Framework>>)
               => Exported.value = "platform:framework"
        /\ (global.ArtApexJars = <<>> /\ global.BootJars = <<CoreOj, Framework>>)
               => Exported.value = "com.android.art:core-oj:platform:framework"
        /\ (global.BootJars = <<>>) => Exported.value = ""

\* C10 witness: the variable is exported for a config with base modules and
\* extension modules.
C10_Witness ==
    /\ Exported # None
    /\ Range(global.ArtApexJars) \subseteq Range(global.BootJars)
    /\ BaseConfig.modules # <<>>
    /\ ExtensionConfig.modules # <<>>

\* C10 as stated: the variable holds the pairs of the base config's modules.
C10_Original ==
    Exported # None =>
        Exported.value = Join(CopyOfApexJarPairs(BaseConfig.modules), ":")

====
